---------------------------- MODULE Spec2Model ----------------------------
(***************************************************************************)
(* Webscout: the IBMGranite provider (streaming decode of newline          *)
(* delimited JSON, optimizer lookup) and the Litlogger LogLevel            *)
(* enumeration.                                                            *)
(*                                                                         *)
(* Text is a sequence of one-character strings.  A line of the response    *)
(* body is a sequence of JSON tokens <<kind, chars>>; json.loads is the    *)
(* recursive-descent parser json_loads below.  A Python object is a pair   *)
(* <<type, payload>>.                                                      *)
(***************************************************************************)
EXTENDS Integers, Sequences, FiniteSets, TLC

VARIABLES
    available_optimizers, \* self.__available_optimizers: what the generator has left
    last_response,        \* self.last_response: a dict, as a set of <<key, value>>
    history,              \* self.conversation: the exchanges appended so far
    asks,                 \* number of ask() calls made on this client
    optimizer,            \* ask(): the optimizer argument of the last call
    ask_outcome,          \* ask(): "none" | "applied" | "rejected" for the last call
    pc,                   \* the stream session's state
    prompt, raw,          \* ask(): the arguments the session was created with
    status, body,         \* response.status_code, response.text
    response_open,        \* the HTTP response (and its connection) is still held
    line,                 \* for_stream: the loop variable `line`
    nlines,               \* number of lines iter_lines has delivered
    at_yield,             \* the generator is suspended at its yield
    streaming_text,       \* for_stream: the local `streaming_text`
    yielded,              \* the values the caller has received, in order
    error,                \* the exception the caller received, if any
    finalized,            \* lines 158-159 ran in this session
    json_errors,          \* lines 154-157: JSON decode errors absorbed in this session
    cause,                \* the exception raised inside the try of for_stream
    level_str, level_out, \* LogLevel.get_level: argument and outcome
    cmp                   \* LogLevel.__lt__: three levels and the results

clientVars == <<available_optimizers, last_response, history, asks, optimizer,
                ask_outcome, pc, prompt, raw, status, body,
                response_open, line, nlines, at_yield, streaming_text,
                yielded, error, finalized, json_errors, cause>>
levelVars == <<level_str, level_out, cmp>>
vars == <<clientVars, levelVars>>

\* ------------------------------------------------------------------ bounds
MaxLines == 3
MaxAsks == 2

\* ------------------------------------------------------------------ text
RECURSIVE Concat(_)
Concat(ss) == IF ss = <<>> THEN <<>> ELSE Head(ss) \o Concat(Tail(ss))

\* ------------------------------------------------------------------ JSON
Tok(kind) == <<kind, <<>>>>
Num(digits) == <<"num", digits>>
Str(chars) == <<"str", chars>>

DigitValue(d) ==
    CASE d = "0" -> 0 [] d = "1" -> 1 [] d = "2" -> 2 [] d = "3" -> 3
      [] d = "4" -> 4 [] d = "5" -> 5 [] d = "6" -> 6 [] d = "7" -> 7
      [] d = "8" -> 8 [] d = "9" -> 9

RECURSIVE DigitsToInt(_)
DigitsToInt(ds) ==
    IF ds = <<>> THEN 0
    ELSE 10 * DigitsToInt(SubSeq(ds, 1, Len(ds) - 1)) + DigitValue(ds[Len(ds)])

PyInt(n) == <<"int", n>>
PyStr(chars) == <<"str", chars>>
PyBool(b) == <<"bool", b>>
PyNone == <<"NoneType", <<>>>>
PyList(items) == <<"list", items>>
PyDict(pairs) == <<"dict", pairs>>

ParseFail == [ok |-> FALSE, val |-> PyNone, pos |-> 0]
ParseOk(v, p) == [ok |-> TRUE, val |-> v, pos |-> p]

RECURSIVE ParseValue(_, _), ParseItems(_, _, _), ParseMembers(_, _, _)

\* json.loads: one value starting at token i
ParseValue(toks, i) ==
    IF i > Len(toks) THEN ParseFail
    ELSE LET k == toks[i][1] IN
         CASE k = "num" -> ParseOk(PyInt(DigitsToInt(toks[i][2])), i + 1)
           [] k = "str" -> ParseOk(PyStr(toks[i][2]), i + 1)
           [] k = "true" -> ParseOk(PyBool(TRUE), i + 1)
           [] k = "false" -> ParseOk(PyBool(FALSE), i + 1)
           [] k = "null" -> ParseOk(PyNone, i + 1)
           [] k = "[" ->
                IF i + 1 <= Len(toks) /\ toks[i + 1][1] = "]"
                THEN ParseOk(PyList(<<>>), i + 2)
                ELSE ParseItems(toks, i + 1, <<>>)
           [] k = "{" ->
                IF i + 1 <= Len(toks) /\ toks[i + 1][1] = "}"
                THEN ParseOk(PyDict(<<>>), i + 2)
                ELSE ParseMembers(toks, i + 1, <<>>)
           [] OTHER -> ParseFail

\* the items of an array, after "[" or ","
ParseItems(toks, i, acc) ==
    LET v == ParseValue(toks, i) IN
    IF ~v.ok \/ v.pos > Len(toks) THEN ParseFail
    ELSE LET k == toks[v.pos][1] IN
         CASE k = "," -> ParseItems(toks, v.pos + 1, Append(acc, v.val))
           [] k = "]" -> ParseOk(PyList(Append(acc, v.val)), v.pos + 1)
           [] OTHER -> ParseFail

\* the members of an object, after "{" or ","
ParseMembers(toks, i, acc) ==
    IF i + 1 > Len(toks) \/ toks[i][1] # "str" \/ toks[i + 1][1] # ":"
    THEN ParseFail
    ELSE LET v == ParseValue(toks, i + 2) IN
         IF ~v.ok \/ v.pos > Len(toks) THEN ParseFail
         ELSE LET k == toks[v.pos][1]
                  more == Append(acc, <<toks[i][2], v.val>>) IN
              CASE k = "," -> ParseMembers(toks, v.pos + 1, more)
                [] k = "}" -> ParseOk(PyDict(more), v.pos + 1)
                [] OTHER -> ParseFail

\* json.loads(line): the whole line must be one value
json_loads(toks) ==
    LET r == ParseValue(toks, 1) IN
    IF r.ok /\ r.pos = Len(toks) + 1 THEN r ELSE ParseFail


\* ------------------------------------------------------- Python semantics
PyType(v) == v[1]

\* len(data): TypeError for objects with no len()
HasLen(v) == PyType(v) \in {"str", "list", "dict"}
PyLen(v) ==
    IF PyType(v) = "dict"
    THEN Cardinality({v[2][i][1] : i \in 1..Len(v[2])})
    ELSE Len(v[2])

\* x == 3
EqualsThree(v) == PyType(v) = "int" /\ v[2] = 3

\* line 147 with no tag test
ShapeCheck_AnyTag(data) ==
    IF ~HasLen(data) THEN "TypeError"
    ELSE IF PyLen(data) # 2 THEN "skip"
    ELSE IF PyType(data) = "dict" THEN "KeyError"
    ELSE IF PyType(data) = "str" THEN "skip"
    ELSE IF PyType(data[2][2]) = "str" THEN "yield" ELSE "skip"

\* line 147: len(data) == 2 and data[0] == 3 and isinstance(data[1], str),
\* evaluated left to right; the outcome is "yield", "skip" or the exception
\* the expression raises
ShapeCheck(data) ==
    IF ~HasLen(data) THEN "TypeError"
    ELSE IF PyLen(data) # 2 THEN "skip"
    ELSE IF PyType(data) = "dict" THEN "KeyError"
    ELSE IF PyType(data) = "str" THEN "skip"
    ELSE IF EqualsThree(data[2][1]) /\ PyType(data[2][2]) = "str"
         THEN "yield" ELSE "skip"

Outcome(act, text, exc) == [act |-> act, text |-> text, exc |-> exc]

\* lines 144-157 with no inner except clause
LineOutcome_NoInnerCatch(l) ==
    IF l = <<>> THEN Outcome("skip", <<>>, "")
    ELSE LET r == json_loads(l) IN
         IF ~r.ok THEN Outcome("raise", <<>>, "JSONDecodeError")
         ELSE LET c == ShapeCheck(r.val) IN
              CASE c = "yield" -> Outcome("yield", r.val[2][2][2], "")
                [] c = "skip" -> Outcome("skip", <<>>, "")
                [] OTHER -> Outcome("raise", <<>>, c)

\* lines 144-157: what one line does to the loop; a skip names the exception
\* the inner except clause absorbed
LineOutcome(l) ==
    IF l = <<>> THEN Outcome("skip", <<>>, "")
    ELSE LET r == json_loads(l) IN
         IF ~r.ok THEN Outcome("skip", <<>>, "JSONDecodeError")
         ELSE LET c == ShapeCheck(r.val) IN
              CASE c = "yield" -> Outcome("yield", r.val[2][2][2], "")
                [] c = "skip" -> Outcome("skip", <<>>, "")
                [] OTHER -> Outcome("raise", <<>>, c)

\* line 150: content if raw else dict(text=content)
YieldValue(content, r) ==
    IF r THEN [type |-> "str", text |-> content]
    ELSE [type |-> "dict", text |-> content]

\* line 212: get_message(response) = response["text"]
get_message(response) == (CHOOSE kv \in response : kv[1] = "text")[2]

\* dict.update(dict(text=t))
DictUpdateText(d, t) == {kv \in d : kv[1] # "text"} \cup {<<"text", t>>}

\* ------------------------------------------------------------- exceptions
NoError == [kind |-> "", msg |-> <<>>]
RequestExceptions == {"ConnectionError", "ChunkedEncodingError"}

Raised(cls, msg) == [kind |-> cls, msg |-> msg]

StatusText(st) ==
    CASE st = 200 -> "200" [] st = 404 -> "404" [] st = 500 -> "500"

\* line 137/140
RequestFailed(st, b) ==
    Raised("FailedToGenerateResponseError",
           <<"Request failed with status code ", StatusText(st), ": ", b>>)

\* lines 163-174 with the RequestException clause missing
OuterHandler_NoRequestClause(e) ==
    IF e.kind = "JSONDecodeError"
    THEN Raised("InvalidResponseError",
                <<"Failed to decode JSON response: ">> \o e.msg)
    ELSE Raised("FailedToGenerateResponseError",
                <<"An unexpected error occurred: ">> \o e.msg)

\* lines 163-174: the except clauses of for_stream, first match wins
OuterHandler(e) ==
    IF e.kind \in RequestExceptions
    THEN Raised("ProviderConnectionError", <<"Request failed: ">> \o e.msg)
    ELSE IF e.kind = "JSONDecodeError"
    THEN Raised("InvalidResponseError",
                <<"Failed to decode JSON response: ">> \o e.msg)
    ELSE Raised("FailedToGenerateResponseError",
                <<"An unexpected error occurred: ">> \o e.msg)

\* ------------------------------------------------------------- optimizers
OptimizerNames == <<"code", "shell_command">>

\* `x in generator`: consumes the generator up to and including the match
RECURSIVE GenIn(_, _)
GenIn(x, gen) ==
    IF gen = <<>> THEN [found |-> FALSE, rest |-> <<>>]
    ELSE IF Head(gen) = x THEN [found |-> TRUE, rest |-> Tail(gen)]
    ELSE GenIn(x, Tail(gen))

\* ------------------------------------------------------------ input sets
Prompts == {"hi"}
OptimizerArgs == {"", "code", "shell_command", "bogus"}   \* "" is None
Statuses == {200, 404, 500}
Bodies == {"", "denied"}

Three == Num(<<"3">>)
Arr(items) == <<Tok("[")>> \o items \o <<Tok("]")>>

FragA == Arr(<<Three, Tok(","), Str(<<"a">>)>>)              \* [3,"a"]
FragB == Arr(<<Three, Tok(","), Str(<<"b", "c">>)>>)         \* [3,"bc"]
FragEmpty == Arr(<<Three, Tok(","), Str(<<>>)>>)             \* [3,""]

Lines == {
    <<>>,                                                    \* blank line
    <<Tok("junk")>>,                                         \* not json
    <<Tok("["), Three, Tok(",")>>,                           \* [3,
    FragA \o <<Tok("junk")>>,                                \* [3,"a"] junk
    FragA, FragB, FragEmpty,
    Arr(<<Num(<<"5">>), Tok(","), Str(<<"a">>)>>),           \* [5,"a"]
    Arr(<<Num(<<"3", "3">>), Tok(","), Str(<<"a">>)>>),      \* [33,"a"]
    Arr(<<Three>>),                                          \* [3]
    Arr(<<Three, Tok(","), Str(<<"a">>), Tok(","), Str(<<"b">>)>>),
    Arr(<<Three, Tok(","), Num(<<"4">>)>>),                  \* [3,4]
    Arr(<<Str(<<"3">>), Tok(","), Str(<<"a">>)>>),           \* ["3","a"]
    Arr(<<Arr(<<Three>>), Tok(","), Str(<<"a">>)>>),         \* [[3],"a"]
    Arr(<<Tok("true"), Tok(","), Str(<<"a">>)>>),            \* [true,"a"]
    Arr(<<>>),                                               \* []
    <<Num(<<"4", "2">>)>>,                                   \* 42
    <<Tok("null")>>,                                         \* null
    <<Tok("true")>>,                                         \* true
    <<Str(<<"a", "b">>)>>,                                   \* "ab"
    <<Str(<<"a">>)>>,                                        \* "a"
    <<Tok("{"), Str(<<"a">>), Tok(":"), Num(<<"1">>), Tok("}")>>,
    <<Tok("{"), Str(<<"a">>), Tok(":"), Num(<<"1">>), Tok(","),
      Str(<<"b">>), Tok(":"), Num(<<"2">>), Tok("}")>>
}

\* ------------------------------------------------------------------- state
NoSession ==
    /\ prompt = "" /\ raw = FALSE
    /\ status = 0 /\ body = ""
    /\ response_open = FALSE
    /\ line = <<>> /\ at_yield = FALSE
    /\ streaming_text = <<>> /\ yielded = <<>>
    /\ error = NoError /\ finalized = FALSE
    /\ json_errors = 0 /\ cause = ""

LevelIdle ==
    /\ level_str = <<>>
    /\ level_out = [kind |-> "", name |-> <<>>, value |-> 0, text |-> <<>>]
    /\ cmp = [a |-> "", b |-> "", c |-> "", ab |-> "", ba |-> "", bc |-> "",
              ac |-> "", aa |-> "", ao |-> ""]

\* lines 48-84: the client as __init__ leaves it
Init ==
    /\ available_optimizers = OptimizerNames
    /\ last_response = {}
    /\ history = <<>>
    /\ asks = 0 /\ optimizer = "" /\ ask_outcome = "none"
    /\ pc = "Idle"
    /\ nlines = 0
    /\ NoSession
    /\ LevelIdle

Terminal == {"Finished", "Failed", "Abandoned"}

\* lines 104-118, 182: ask() up to the optimizer test; a new session.  With
\* stream=False for_non_stream (lines 176-180) drives the same generator to
\* its end: the runs below in which the caller never stops early.
Ask(p, r, opt) ==
    /\ pc \in {"Idle"} \cup Terminal
    /\ asks < MaxAsks
    /\ asks' = asks + 1
    /\ optimizer' = opt
    /\ LET look == GenIn(opt, available_optimizers) IN
       IF opt = ""
       THEN /\ ask_outcome' = "none"
            /\ available_optimizers' = available_optimizers
            /\ error' = NoError
       ELSE /\ available_optimizers' = look.rest
            /\ ask_outcome' = IF look.found THEN "applied" ELSE "rejected"
            /\ error' = IF look.found THEN NoError
                        ELSE Raised("Exception", <<"Optimizer is not one of ">>)
    /\ pc' = IF ask_outcome' = "rejected" THEN "Idle" ELSE "NotStarted"
    /\ prompt' = p /\ raw' = r
    /\ status' = 0 /\ body' = ""
    /\ response_open' = FALSE
    /\ line' = <<>> /\ at_yield' = FALSE
    /\ streaming_text' = <<>> /\ yielded' = <<>>
    /\ finalized' = FALSE
    /\ json_errors' = 0 /\ cause' = ""
    /\ UNCHANGED <<last_response, history, nlines, levelVars>>

\* lines 158-159
Finalize ==
    /\ last_response' = DictUpdateText(last_response, streaming_text)
    /\ history' = Append(history, <<prompt, get_message(last_response')>>)
    /\ finalized' = TRUE

\* the session ends with exception e raised inside the try of for_stream
Fail(e) ==
    /\ pc' = "Failed"
    /\ error' = OuterHandler(e)
    /\ cause' = e.kind
    /\ at_yield' = FALSE

\* lines 133-135, 163-166: session.post raises
PostRaises(exc) ==
    /\ pc = "NotStarted"
    /\ Fail(Raised(exc, <<exc>>))
    /\ UNCHANGED <<available_optimizers, last_response, history, asks,
                   optimizer, ask_outcome, prompt, raw, status, body,
                   response_open, line, nlines, streaming_text, yielded,
                   finalized, json_errors, levelVars>>

\* lines 133-140, 171-174: the response is not ok; response.text reads the
\* body to its end, which gives the connection back
PostNotOk(st, b) ==
    /\ pc = "NotStarted"
    /\ st >= 400
    /\ status' = st /\ body' = b
    /\ response_open' = FALSE
    /\ Fail(RequestFailed(st, b))
    /\ UNCHANGED <<available_optimizers, last_response, history, asks,
                   optimizer, ask_outcome, prompt, raw, line, nlines,
                   streaming_text, yielded, finalized, json_errors, levelVars>>

\* lines 133-142: the response is ok and stays open for iter_lines
PostOk(st) ==
    /\ pc = "NotStarted"
    /\ st < 400
    /\ status' = st
    /\ response_open' = TRUE
    /\ streaming_text' = <<>>
    /\ pc' = "Streaming"
    /\ UNCHANGED <<available_optimizers, last_response, history, asks,
                   optimizer, ask_outcome, prompt, raw, body, line,
                   nlines, at_yield, yielded, error, finalized, json_errors, cause,
                   levelVars>>

\* lines 143-157: iter_lines delivers one line
ReadLine(l) ==
    /\ pc = "Streaming"
    /\ nlines < MaxLines
    /\ nlines' = nlines + 1
    /\ line' = l
    /\ LET o == LineOutcome(l) IN
       CASE o.act = "yield" ->
              /\ streaming_text' = streaming_text \o o.text
              /\ yielded' = Append(yielded, YieldValue(o.text, raw))
              /\ at_yield' = TRUE
              /\ UNCHANGED <<pc, error, cause, json_errors>>
         [] o.act = "skip" ->
              /\ at_yield' = FALSE
              /\ json_errors' = IF o.exc = "JSONDecodeError"
                                THEN json_errors + 1 ELSE json_errors
              /\ UNCHANGED <<pc, error, cause, streaming_text, yielded>>
         [] o.act = "raise" ->
              /\ Fail(Raised(o.exc, <<o.exc>>))
              /\ UNCHANGED <<streaming_text, yielded, json_errors>>
    /\ UNCHANGED <<available_optimizers, last_response, history, asks,
                   optimizer, ask_outcome, prompt, raw, status, body,
                   response_open, finalized, levelVars>>

\* lines 143, 163-166 with lines 158-159 run on the way out as well
TransportError_Finalizes(exc) ==
    /\ pc = "Streaming"
    /\ response_open' = FALSE
    /\ Fail(Raised(exc, <<exc>>))
    /\ Finalize
    /\ UNCHANGED <<available_optimizers, asks, optimizer, ask_outcome, prompt,
                   raw, status, body, line, nlines, streaming_text,
                   yielded, json_errors, levelVars>>

\* lines 143, 163-166: iter_lines raises; the broken connection is dropped
TransportError(exc) ==
    /\ pc = "Streaming"
    /\ response_open' = FALSE
    /\ Fail(Raised(exc, <<exc>>))
    /\ UNCHANGED <<available_optimizers, last_response, history, asks,
                   optimizer, ask_outcome, prompt, raw, status, body,
                   line, nlines, streaming_text, yielded, finalized,
                   json_errors, levelVars>>

\* lines 143, 158-161: iter_lines ends; the body was read to its end, which
\* gives the connection back
Exhaust ==
    /\ pc = "Streaming"
    /\ Finalize
    /\ pc' = "Finished"
    /\ response_open' = FALSE
    /\ at_yield' = FALSE
    /\ UNCHANGED <<available_optimizers, asks, optimizer, ask_outcome, prompt,
                   raw, status, body, line, nlines, streaming_text,
                   yielded, error, json_errors, cause, levelVars>>

\* the caller stops consuming: the generator stays suspended at line 150, or
\* is closed there (GeneratorExit is no Exception: no except clause runs)
Abandon ==
    /\ \/ pc = "NotStarted"
       \/ pc = "Streaming" /\ at_yield
    /\ pc' = "Abandoned"
    /\ UNCHANGED <<available_optimizers, last_response, history, asks,
                   optimizer, ask_outcome, prompt, raw, status, body,
                   response_open, line, nlines, at_yield, streaming_text,
                   yielded, error, finalized, json_errors, cause, levelVars>>

Next ==
    \/ \E p \in Prompts, r \in BOOLEAN, opt \in OptimizerArgs :
          Ask(p, r, opt)
    \/ \E c \in RequestExceptions : PostRaises(c)
    \/ \E st \in Statuses, b \in Bodies : PostNotOk(st, b)
    \/ \E st \in Statuses : PostOk(st)
    \/ \E l \in Lines : ReadLine(l)
    \/ \E c \in RequestExceptions : TransportError(c)
    \/ Exhaust
    \/ Abandon

Spec == Init /\ [][Next]_vars

\* ---------------------------------------------------------------- LogLevel
DEBUG == 10
INFO == 20
WARNING == 30
ERROR == 40
CRITICAL == 50

\* the members of the Enum, in definition order: <<name, value>>
LogLevelMembers == <<
    <<<<"D", "E", "B", "U", "G">>, DEBUG>>,
    <<<<"I", "N", "F", "O">>, INFO>>,
    <<<<"W", "A", "R", "N", "I", "N", "G">>, WARNING>>,
    <<<<"E", "R", "R", "O", "R">>, ERROR>>,
    <<<<"C", "R", "I", "T", "I", "C", "A", "L">>, CRITICAL>> >>

\* <<lower, upper>> of the letters of the ASCII alphabet
CasePairs == {
    <<"a", "A">>, <<"b", "B">>, <<"c", "C">>, <<"d", "D">>, <<"e", "E">>,
    <<"f", "F">>, <<"g", "G">>, <<"h", "H">>, <<"i", "I">>, <<"j", "J">>,
    <<"k", "K">>, <<"l", "L">>, <<"m", "M">>, <<"n", "N">>, <<"o", "O">>,
    <<"p", "P">>, <<"q", "Q">>, <<"r", "R">>, <<"s", "S">>, <<"t", "T">>,
    <<"u", "U">>, <<"v", "V">>, <<"w", "W">>, <<"x", "X">>, <<"y", "Y">>,
    <<"z", "Z">> }

UpperChar(c) ==
    IF \E q \in CasePairs : q[1] = c
    THEN (CHOOSE q \in CasePairs : q[1] = c)[2]
    ELSE c

LowerChar(c) ==
    IF \E q \in CasePairs : q[2] = c
    THEN (CHOOSE q \in CasePairs : q[2] = c)[1]
    ELSE c

\* str.upper()
upper(s) == [i \in 1..Len(s) |-> UpperChar(s[i])]

LevelResult(kind, name, value, text) ==
    [kind |-> kind, name |-> name, value |-> value, text |-> text]

\* lines 11-15 with the key used as written
get_level_NoUpper(s) ==
    IF \E i \in 1..Len(LogLevelMembers) : LogLevelMembers[i][1] = s
    THEN LET i == CHOOSE i \in 1..Len(LogLevelMembers) :
                     LogLevelMembers[i][1] = s
         IN LevelResult("LogLevel", LogLevelMembers[i][1],
                        LogLevelMembers[i][2], <<>>)
    ELSE LevelResult("ValueError", <<>>, 0, s)

\* lines 11-15: LogLevel[level_str.upper()], KeyError becomes ValueError
get_level(s) ==
    LET key == upper(s) IN
    IF \E i \in 1..Len(LogLevelMembers) : LogLevelMembers[i][1] = key
    THEN LET i == CHOOSE i \in 1..Len(LogLevelMembers) :
                     LogLevelMembers[i][1] = key
         IN LevelResult("LogLevel", LogLevelMembers[i][1],
                        LogLevelMembers[i][2], <<>>)
    ELSE LevelResult("ValueError", <<>>, 0, s)

LevelNames == {"DEBUG", "INFO", "WARNING", "ERROR", "CRITICAL"}
NonLevels == {"int", "str"}

\* member.value
LevelValue(a) ==
    CASE a = "DEBUG" -> DEBUG [] a = "INFO" -> INFO [] a = "WARNING" -> WARNING
      [] a = "ERROR" -> ERROR [] a = "CRITICAL" -> CRITICAL

\* lines 17-20 comparing with <=
lt_OrEqual(self, other) ==
    IF other \in LevelNames
    THEN IF LevelValue(self) <= LevelValue(other) THEN "True" ELSE "False"
    ELSE "NotImplemented"

\* lines 17-20: LogLevel.__lt__
lt(self, other) ==
    IF other \in LevelNames
    THEN IF LevelValue(self) < LevelValue(other) THEN "True" ELSE "False"
    ELSE "NotImplemented"

\* every way of writing a name in upper and lower case letters
RECURSIVE CaseVariants(_)
CaseVariants(name) ==
    IF name = <<>> THEN {<<>>}
    ELSE {<<c>> \o rest : c \in {Head(name), LowerChar(Head(name))},
                          rest \in CaseVariants(Tail(name))}

OtherStrings == {
    <<>>,
    <<"T", "R", "A", "C", "E">>,
    <<"w", "a", "r", "n">>,
    <<"W", "A", "R", "N">>,
    <<"I", "N", "F", "O", " ">>,
    <<" ", "i", "n", "f", "o">>,
    <<"i", "n", "f", "o", "o">>,
    <<"D", "E", "B", "U">>,
    <<"d", "e", "b", "u", "g", "1">>,
    <<"1", "0">>,
    <<"2", "0">>,
    <<"E", "R", "O", "R", "R">>,
    <<"f", "a", "t", "a", "l">>,
    <<"L", "o", "g", "L", "e", "v", "e", "l">>,
    <<"g", "e", "t", "_", "l", "e", "v", "e", "l">>,
    <<"c", "r", "i", "t", "i", "c", "a", "l", "s">> }

LevelStrings ==
    OtherStrings \cup
    UNION {CaseVariants(LogLevelMembers[i][1]) : i \in 1..Len(LogLevelMembers)}

\* a call of LogLevel.get_level
GetLevel(s) ==
    /\ level_str' = s
    /\ level_out' = get_level(s)
    /\ cmp' = [a |-> "", b |-> "", c |-> "", ab |-> "", ba |-> "", bc |-> "",
               ac |-> "", aa |-> "", ao |-> ""]
    /\ UNCHANGED clientVars

\* the comparisons a < b, b < a, b < c, a < c, a < a and a < o
Compare(a, b, c, o) ==
    /\ cmp' = [a |-> a, b |-> b, c |-> c, ab |-> lt(a, b), ba |-> lt(b, a),
               bc |-> lt(b, c), ac |-> lt(a, c), aa |-> lt(a, a),
               ao |-> lt(a, o)]
    /\ level_str' = <<>>
    /\ level_out' = LevelResult("", <<>>, 0, <<>>)
    /\ UNCHANGED clientVars

LevelNext ==
    \/ \E s \in LevelStrings : GetLevel(s)
    \/ \E a \in LevelNames, b \in LevelNames, c \in LevelNames,
          o \in NonLevels : Compare(a, b, c, o)

LevelSpec == Init /\ [][LevelNext]_vars

\* ------------------------------------------------------------------ claims
\* the wire shape [3, <string>] of a line, as the specification words it
IsArrayLine(l) == l # <<>> /\ json_loads(l).ok /\ PyType(json_loads(l).val) = "list"
IsFragmentLine(l) ==
    /\ IsArrayLine(l)
    /\ LET items == json_loads(l).val[2] IN
       /\ Len(items) = 2
       /\ PyType(items[1]) = "int" /\ items[1][2] = 3
       /\ PyType(items[2]) = "str"
FragmentText(l) == json_loads(l).val[2][2][2]
YieldTexts(ys) == [i \in 1..Len(ys) |-> ys[i].text]
LineRead == nlines' = nlines + 1
SameSession == asks' = asks

\* C1: a blank line, a line that is no JSON and a JSON array that is not
\* [3, <string>] yield nothing and leave the loop running; a line [3, <string>]
\* yields exactly its string, bare when raw and as {text: <string>} otherwise,
\* after the values yielded before it; the accumulated text is always the
\* concatenation of the yielded texts, and so is the text finalize stores.
C1_Step ==
    (LineRead /\ (line' = <<>> \/ ~json_loads(line').ok \/ IsArrayLine(line'))) =>
        IF IsFragmentLine(line')
        THEN /\ yielded' = Append(yielded,
                     [type |-> IF raw THEN "str" ELSE "dict",
                      text |-> FragmentText(line')])
             /\ pc' = "Streaming"
        ELSE /\ yielded' = yielded
             /\ pc' = "Streaming"
C1_Text ==
    /\ pc \in {"Streaming", "Finished"} => streaming_text = Concat(YieldTexts(yielded))
    /\ finalized =>
          /\ last_response = {<<"text", Concat(YieldTexts(yielded))>>}
          /\ history[Len(history)] = <<prompt, Concat(YieldTexts(yielded))>>
C2_Step ==
    (LineRead /\ line' # <<>> /\ json_loads(line').ok /\ ~IsFragmentLine(line')) =>
        /\ yielded' = yielded
        /\ error' = NoError
        /\ pc' = "Streaming"
\* C2: every read of a JSON line of another shape is a skip without error.
C2_OtherShapesSkipped == [][C2_Step]_vars

\* C3: a line that is no JSON yields nothing, leaves the accumulated text as
\* it was, raises nothing and leaves the loop running; a session that absorbed
\* such lines never ends with a JSON error, and when its source ends it is
\* finalized with the text of its fragments.
C3_Step ==
    (LineRead /\ line' # <<>> /\ ~json_loads(line').ok) =>
        /\ yielded' = yielded
        /\ streaming_text' = streaming_text
        /\ error' = NoError
        /\ pc' = "Streaming"
        /\ json_errors' = json_errors + 1
C3_After ==
    /\ error.kind # "InvalidResponseError"
    /\ (json_errors > 0 /\ pc = "Finished") =>
          /\ finalized
          /\ get_message(last_response) = Concat(YieldTexts(yielded))
\* C3: every read of a line that is no JSON is absorbed (C3_Step), and the
\* session goes on to its fragments and its finalize (C3_After).
C3_BadJsonNonFatal == [][C3_Step]_vars /\ []C3_After
C3_Witness ==
    /\ json_errors = 1 /\ nlines = 3 /\ pc = "Finished" /\ finalized
    /\ line = FragB
    /\ YieldTexts(yielded) = << <<"a">>, <<"b", "c">> >>

\* the order of the session states
StateRank(st) ==
    CASE st = "Idle" -> 0 [] st = "NotStarted" -> 1 [] st = "Streaming" -> 2
      [] st \in Terminal -> 3

\* C4: finalize (last_response and the history updated) runs in a session
\* exactly when its line source is exhausted: the step from Streaming to
\* Finished stores the accumulated text and appends <<prompt, text>>, no other
\* step changes last_response or the history, and a Failed or Abandoned
\* session is never finalized; within a session the states are left only in
\* the order NotStarted, Streaming, then Finished or Failed, and Finished and
\* Failed are never left.
C4_Step ==
    /\ (history' # history \/ last_response' # last_response
            \/ (finalized' /\ ~finalized)) =>
          (pc = "Streaming" /\ pc' = "Finished")
    /\ (pc = "Streaming" /\ pc' = "Finished") =>
          /\ finalized'
          /\ last_response' = {<<"text", streaming_text>>}
          /\ history' = Append(history, <<prompt, streaming_text>>)
    /\ (SameSession /\ pc' # pc) =>
          (pc \notin Terminal /\ StateRank(pc) < StateRank(pc'))
C4_State ==
    /\ finalized <=> pc = "Finished"
    /\ pc = "Finished" => (cause = "" /\ error = NoError)
\* C4: finalize runs exactly on exhaustion and the session states only move
\* forward (C4_Step, C4_State).
C4_FinalizeIffExhausted == [][C4_Step]_vars /\ []C4_State
C4_Witness ==
    /\ asks = 2 /\ Len(history) = 1
    /\ pc = "Failed" /\ yielded # <<>> /\ ~finalized
    /\ get_message(last_response) = history[1][2]

\* C5: when session.post or iter_lines raises a transport error, the session
\* fails with ProviderConnectionError and no other kind, the values already
\* yielded stay as they are and none is added afterwards, and last_response
\* and the history are left as they were.
C5_Step ==
    /\ (cause = "" /\ cause' \in RequestExceptions) =>
          /\ pc' = "Failed"
          /\ error'.kind = "ProviderConnectionError"
          /\ yielded' = yielded
          /\ last_response' = last_response
          /\ history' = history
    /\ (pc = "Failed" /\ SameSession) =>
          /\ pc' = "Failed"
          /\ yielded' = yielded
          /\ last_response' = last_response
          /\ history' = history
C5_State ==
    (pc = "Failed" /\ cause \in RequestExceptions) =>
        (error.kind = "ProviderConnectionError" /\ ~finalized)
\* C5: a transport error ends the session with ProviderConnectionError, keeps
\* what was yielded and updates nothing (C5_Step, C5_State).
C5_TransportErrorIsConnectionFailure == [][C5_Step]_vars /\ []C5_State
C5_Witness ==
    /\ pc = "Failed" /\ cause = "ChunkedEncodingError"
    /\ error.kind = "ProviderConnectionError"
    /\ YieldTexts(yielded) = << <<"a">>, <<"b", "c">> >>
    /\ last_response = {} /\ history = <<>>

\* C6: a response that is not ok fails the session with the request failure
\* of line 140 itself (status code and body text), not with the catch-all
\* error of line 174; nothing is yielded and nothing is finalized.
C6_RequestFailureUnmodified ==
    (pc = "Failed" /\ status >= 400) =>
        /\ error = RequestFailed(status, body)
        /\ yielded = <<>>
        /\ ~finalized

\* C7: no session is in a terminal or abandoned state with its HTTP response
\* still held.
C7_ResponseReleased == pc \in Terminal => ~response_open

\* text s spells name, letter by letter, in upper or lower case
SpellsName(s, name) ==
    /\ Len(s) = Len(name)
    /\ \A i \in 1..Len(name) : s[i] = name[i] \/ <<s[i], name[i]>> \in CasePairs

\* C8: get_level returns the member whose name the text spells in any mix of
\* upper and lower case letters, and for every other text it fails with a
\* ValueError that reports the text.
C8_GetLevel ==
    level_out.kind # "" =>
        /\ \A i \in 1..Len(LogLevelMembers) :
              SpellsName(level_str, LogLevelMembers[i][1]) =>
                  level_out = LevelResult("LogLevel", LogLevelMembers[i][1],
                                          LogLevelMembers[i][2], <<>>)
        /\ (\A i \in 1..Len(LogLevelMembers) :
                ~SpellsName(level_str, LogLevelMembers[i][1])) =>
              level_out = LevelResult("ValueError", <<>>, 0, level_str)
C8_Witness ==
    /\ level_str = <<"w", "A", "r", "n", "I", "n", "g">>
    /\ level_out.kind = "LogLevel" /\ level_out.value = WARNING

\* the severities from least to most severe
LevelOrder == <<"DEBUG", "INFO", "WARNING", "ERROR", "CRITICAL">>
Position(a) == CHOOSE i \in 1..Len(LevelOrder) : LevelOrder[i] = a

\* C9: a < b is defined for every two levels, agrees with the order DEBUG <
\* INFO < WARNING < ERROR < CRITICAL and with the numeric values, and is a
\* strict total order: irreflexive, antisymmetric, transitive, and exactly
\* one of a < b, a = b, b < a holds.
C9_StrictTotalOrder ==
    cmp.a # "" =>
        /\ {cmp.ab, cmp.ba, cmp.bc, cmp.ac, cmp.aa} \subseteq {"True", "False"}
        /\ cmp.ab = "True" <=> Position(cmp.a) < Position(cmp.b)
        /\ cmp.ab = "True" <=> LevelValue(cmp.a) < LevelValue(cmp.b)
        /\ cmp.aa = "False"
        /\ ~(cmp.ab = "True" /\ cmp.ba = "True")
        /\ (cmp.ab = "True" /\ cmp.bc = "True") => cmp.ac = "True"
        /\ Cardinality({k \in 1..3 :
               \/ k = 1 /\ cmp.ab = "True"
               \/ k = 2 /\ cmp.a = cmp.b
               \/ k = 3 /\ cmp.ba = "True"}) = 1
C9_Witness ==
    /\ cmp.a = "INFO" /\ cmp.b = "WARNING" /\ cmp.c = "CRITICAL"
    /\ cmp.ab = "True" /\ cmp.bc = "True" /\ cmp.ac = "True" /\ cmp.ba = "False"

\* C10: a call of ask that names an optimizer defined on Optimizers applies
\* it, whatever calls came before.
C10_ValidOptimizerAccepted ==
    (\E i \in 1..Len(OptimizerNames) : OptimizerNames[i] = optimizer) =>
        ask_outcome = "applied"

=============================================================================
